---- MODULE Spec2Model ----
(***************************************************************************)
(* A model of taika's render composition layer (PrimaryDrawPass,          *)
(* DefaultRenderPipeline) and of its window event router (AppState).      *)
(*                                                                         *)
(* Spec      : one PrimaryDrawPass shared between a host thread, a        *)
(*             DefaultRenderPipeline and a direct caller of               *)
(*             RenderPass::render.                                        *)
(* SpecSched : AppState::window_event over a collection of windows.       *)
(***************************************************************************)
EXTENDS Integers, Sequences, FiniteSets, TLC

\* ---------------------------------------------------------------- bounds
MaxEntries == 2     \* entries (active + pending) the pass holds under Spec
MaxOrdered == 3     \* entries the pass holds under SpecOrder
MaxEvents == 2      \* window events dispatched
MaxTime == 3        \* last tick of the clock
MaxFrameTicks == 1  \* ticks between Instant::now() and queue.submit
TicksPerSec == 2    \* clock ticks in one second
MaxRenders == 2     \* pass renders / pipeline renders explored
MaxSize == 2        \* largest width and height the OS reports
MaxTasks == 1       \* tasks one ComputePass holds

Windows == {"w1", "w2"}          \* AppState.windows
WindowOrder == <<"w1", "w2">>    \* AppState.windows as the Vec is iterated
\* PhysicalSize<u32> values: those the OS reports under SpecWindow, and the
\* one it reports under SpecSched
Sizes == (0..MaxSize) \X (0..MaxSize)
SchedSizes == {<<0, 0>>}
FrameRates == {0, 2}             \* values of Some(max_framerate)
Drawables == {"a", "b", "c"}     \* Arc<Mutex<dyn Drawable>> identities
ComputePasses == {"compute1", "compute2"}  \* ComputePass names
PassNames == {"PrimaryDrawPass"} \cup ComputePasses
Tasks == {"t1"}            \* Arc<Mutex<dyn ComputeTask>> identities
\* the (drawable, z) pairs the host passes to add_drawable: two drawables
\* with one z, one drawable with two z values
AddInputs == {<<"a", 1>>, <<"b", 2>>, <<"a", 2>>}
\* the pairs passed under SpecOrder: pairwise distinct z values, handed over
\* in any order
OrderInputs == {<<"a", 1>>, <<"b", 3>>, <<"c", 2>>}
None == "none"

VARIABLES
    \* PrimaryDrawPass
    drawables,        \* BinaryHeap<DrawableElement>: its backing array
    new_drawables,    \* Vec<(Arc<Mutex<dyn Drawable>>, u32)>
    passLocked,       \* the Mutex around the pass is held by a render
    \* Drawable (what the pass has done to each drawable)
    initCount,        \* number of Drawable::init calls per drawable
    everActive,       \* drawables that have ever been pushed on the heap
    cancelled,        \* removed while only pending, not added since
    lastDrawn,        \* elements drawn by the latest render, in draw order
    renderNo,         \* number of PrimaryDrawPass::render calls begun
    \* host thread holding a handle of the pass
    hostBlocked,      \* add_drawable waiting for the pass lock
    lateAdd,          \* the add_drawable that was invoked during a render
    \* DefaultRenderPipeline
    render_passes,    \* Vec<Arc<Mutex<dyn RenderPass>>>
    initialized,      \* bool
    rmode,            \* position of the rendering thread
    rpIdx,            \* index of the pass loop of the running render
    pipeRenderNo,     \* number of DefaultRenderPipeline::render calls
    initSteps,        \* log of the one-time initialization step
    gbgInitCount,     \* GlobalBindGroup::init calls
    passInitCount,    \* RenderPass::init calls made by the pipeline
    preRenderCount,   \* GlobalBindGroup::pre_render calls
    passRenderCount,  \* RenderPass::render calls made by the pipeline
    renderLog,        \* calls of the latest DefaultRenderPipeline::render
    \* ComputePass, per pass
    cp_tasks,         \* Vec<Arc<Mutex<dyn ComputeTask>>>
    cp_initialized,   \* bool
    cp_renders,       \* ComputePass::render calls
    \* ComputeTask, per task
    taskInit,         \* ComputeTask::init calls
    taskCompute,      \* ComputeTask::compute calls
    panicked,         \* <<>> or the message of the panic that ended the run
    \* AppState and its windows
    instance,         \* Window.instance is Some, per window
    surface_config,   \* Window.surface_config: <<>> or <<config>>, per window
    vsync,            \* RenderSettings.vsync
    max_framerate,    \* RenderSettings.max_framerate: <<>> or <<rate>>
    QUIT,             \* the process-wide quit flag
    exiting,          \* event_loop.exit() has been called
    now,              \* the clock read by Instant::now(), in ticks
    last_frame,       \* Window.last_frame, per window
    redraw_requested, \* a request_redraw not yet answered, per window
    \* what the EventHandler of each window and the queue have seen
    closeCount,       \* window_close notifications, per window
    frameCount,       \* window_frame notifications, per window
    afterFrameCount,  \* window_after_frame notifications, per window
    prev_frame,       \* last_frame of the frame cycle before, per window
    lastSubmit,       \* time of the latest queue.submit, per window
    prevSubmit,       \* time of the submit before that, per window
    submitCount,      \* queue.submit calls
    submitsAtQuit,    \* submitCount when QUIT was set
    closeSeen,        \* windows whose CloseRequested was handled
    quitDispatches,   \* dispatches that found QUIT set
    dispatched,       \* window_event calls
    lockLog,          \* Mutex locks taken and dropped by the latest
                      \* AppState call, in order
    resumeLog,        \* the calls AppState::resumed made, in order
    windowCall,       \* the latest Window method called outside AppState
    last              \* what the latest window_event call did

rvars == <<drawables, new_drawables, passLocked, initCount, everActive,
           cancelled, lastDrawn, renderNo, hostBlocked, lateAdd,
           render_passes, initialized, rmode, rpIdx, pipeRenderNo, initSteps,
           gbgInitCount, passInitCount, preRenderCount, passRenderCount,
           renderLog, cp_tasks, cp_initialized, cp_renders, taskInit,
           taskCompute, panicked>>

svars == <<instance, surface_config, vsync, max_framerate, QUIT, exiting, now,
           last_frame, redraw_requested, closeCount, frameCount,
           afterFrameCount, prev_frame, lastSubmit, prevSubmit, submitCount,
           submitsAtQuit, closeSeen, quitDispatches, dispatched, resumeLog,
           windowCall, last>>

lvars == <<lockLog>>

vars == <<rvars, svars, lvars>>

\* ------------------------------------------------------ DrawableElement
DrawableElement(d, zv) == [drawable |-> d, z |-> zv]

\* Ord for DrawableElement: self.z.cmp(&other.z).reverse()
OrdLe(x, y) == x.z >= y.z
OrdLt(x, y) == x.z > y.z
OrdGe(x, y) == x.z <= y.z

\* PartialEq for DrawableElement / the retain closures: Arc::ptr_eq
PtrEq(x, d) == x.drawable = d

SeqRange(s) == {s[i] : i \in 1..Len(s)}
DrawablesOf(s) == {s[i].drawable : i \in 1..Len(s)}
ZOrder(s) == [i \in 1..Len(s) |-> s[i].z]

\* ----------------------------------------- std::collections::BinaryHeap
\* The heap is the Vec `data`; positions are 0-based as in the library.
At(data, i) == data[i + 1]
Swap(data, i, j) ==
    [k \in 1..Len(data) |->
        IF k = i + 1 THEN data[j + 1]
        ELSE IF k = j + 1 THEN data[i + 1] ELSE data[k]]

RECURSIVE sift_up(_, _)
sift_up(data, pos) ==
    IF pos > 0
    THEN LET parent == (pos - 1) \div 2
         IN  IF OrdLe(At(data, pos), At(data, parent))
             THEN data
             ELSE sift_up(Swap(data, pos, parent), parent)
    ELSE data

HeapPush(data, item) == sift_up(Append(data, item), Len(data))

SatSub(x, y) == IF x >= y THEN x - y ELSE 0

RECURSIVE sift_down_range(_, _, _)
sift_down_range(data, pos, end) ==
    LET child == 2 * pos + 1
    IN  IF child <= SatSub(end, 2)
        THEN LET c == IF OrdLe(At(data, child), At(data, child + 1))
                      THEN child + 1 ELSE child
             IN  IF OrdGe(At(data, pos), At(data, c))
                 THEN data
                 ELSE sift_down_range(Swap(data, pos, c), c, end)
        ELSE IF child = end - 1 /\ OrdLt(At(data, pos), At(data, child))
             THEN Swap(data, pos, child)
             ELSE data

RECURSIVE rebuild_loop(_, _)
rebuild_loop(data, n) ==
    IF n > 0
    THEN rebuild_loop(sift_down_range(data, n - 1, Len(data)), n - 1)
    ELSE data

rebuild(data) == rebuild_loop(data, Len(data) \div 2)

RECURSIVE log2_fast(_)
log2_fast(x) == IF x <= 1 THEN 0 ELSE 1 + log2_fast(x \div 2)

RECURSIVE sift_up_from(_, _)
sift_up_from(data, i) ==
    IF i < Len(data) THEN sift_up_from(sift_up(data, i), i + 1) ELSE data

rebuild_tail(data, start) ==
    IF start = Len(data)
    THEN data
    ELSE LET tail_len == Len(data) - start
             better_to_rebuild ==
                 IF start < tail_len THEN TRUE
                 ELSE IF Len(data) <= 2048
                      THEN 2 * Len(data) < tail_len * log2_fast(start)
                      ELSE 2 * Len(data) < tail_len * 11
         IN  IF better_to_rebuild THEN rebuild(data)
             ELSE sift_up_from(data, start)

\* BinaryHeap::retain(|e| !Arc::ptr_eq(&e.drawable, &d))
HeapRetainNot_byZ(data, d) ==
    LET zs == {data[i].z : i \in {j \in 1..Len(data) : PtrEq(data[j], d)}}
    IN  rebuild(SelectSeq(data, LAMBDA e : e.z \notin zs))
HeapRetainNot(data, d) ==
    LET gone == {i \in 1..Len(data) : PtrEq(data[i], d)}
        kept == SelectSeq(data, LAMBDA e : ~PtrEq(e, d))
        rebuild_from ==
            IF gone = {} THEN Len(data)
            ELSE (CHOOSE i \in gone : \A j \in gone : i <= j) - 1
    IN  rebuild_tail(kept, rebuild_from)

\* BinaryHeap::iter(): the backing array, front to back
HeapIter(data) == data

\* PrimaryDrawPass::drawable_count: self.drawables.len()
drawable_count(data) == Len(data)

\* Vec::retain(|e| !Arc::ptr_eq(&e.0, &d))
VecRetainNot_keep(vec, d) == vec
VecRetainNot(vec, d) == SelectSeq(vec, LAMBDA e : ~PtrEq(e, d))

\* ------------------------------------------------------------- Drawable
\* Drawable::init on drawable d, counted
DrawableInit_skipped(ic, d) == ic
DrawableInit(ic, d) == [ic EXCEPT ![d] = @ + 1]

RECURSIVE InitEach(_, _)
InitEach(ic, s) ==
    IF s = <<>> THEN ic
    ELSE InitEach(DrawableInit(ic, Head(s).drawable), Tail(s))

\* ------------------------------------------------------ PrimaryDrawPass
\* render, lines 99-107: for d in new_drawables.drain(..) { init; push }
RECURSIVE DrainInto(_, _)
DrainInto(heap, pending) ==
    IF pending = <<>> THEN heap
    ELSE DrainInto(HeapPush(heap, DrawableElement(Head(pending).drawable,
                                                  Head(pending).z)),
                   Tail(pending))

\* what new_drawables.drain(..) leaves in new_drawables
DrainRest_kept(pending) == pending
DrainRest(pending) == <<>>

\* render, lines 108-111: one MutexGuard per element of the heap, all held
\* together; a second lock() of a Mutex this thread holds never returns
GuardsAcquirable(heap) == Cardinality(DrawablesOf(heap)) = Len(heap)

\* PrimaryDrawPass::init: init on every drawable of the heap
PrimaryDrawPass_init(ic, heap) == InitEach(ic, HeapIter(heap))

InPass(d) == d \in DrawablesOf(drawables) \cup DrawablesOf(new_drawables)

NoLateAdd ==
    [drawable |-> None, invoked |-> 0, landed |-> 0, fresh |-> FALSE,
     inits |-> 0]

\* where add_drawable puts the pair
AddTarget_active(pending, heap, e) == <<pending, HeapPush(heap, e)>>
AddTarget(pending, heap, e) == <<Append(pending, e), heap>>

cvars == <<cp_tasks, cp_initialized, cp_renders, taskInit, taskCompute,
           panicked>>

pipeVars == <<render_passes, initialized, rmode, rpIdx, pipeRenderNo,
              initSteps, gbgInitCount, passInitCount, preRenderCount,
              passRenderCount, renderLog, cvars>>

\* pass.lock().unwrap().add_drawable(d, z) by a holder of the pass handle.
\* While a render holds the pass lock the caller waits in lock().
add_drawable(d, zv) ==
    /\ hostBlocked = <<>>
    /\ IF passLocked
       THEN /\ hostBlocked' = <<DrawableElement(d, zv)>>
            /\ lateAdd' = [drawable |-> d, invoked |-> renderNo,
                           landed |-> -1, fresh |-> ~InPass(d),
                           inits |-> initCount[d]]
            /\ UNCHANGED <<drawables, new_drawables, cancelled>>
       ELSE /\ new_drawables' = AddTarget(new_drawables, drawables,
                                          DrawableElement(d, zv))[1]
            /\ drawables' = AddTarget(new_drawables, drawables,
                                      DrawableElement(d, zv))[2]
            /\ cancelled' = cancelled \ {d}
            /\ UNCHANGED <<hostBlocked, lateAdd>>
    /\ UNCHANGED <<passLocked, initCount, everActive, lastDrawn, renderNo>>
    /\ UNCHANGED pipeVars

\* the waiting add_drawable gets the lock once the render has released it
add_drawable_resume ==
    /\ hostBlocked # <<>>
    /\ ~passLocked
    /\ new_drawables' = AddTarget(new_drawables, drawables, hostBlocked[1])[1]
    /\ drawables' = AddTarget(new_drawables, drawables, hostBlocked[1])[2]
    /\ cancelled' = cancelled \ {hostBlocked[1].drawable}
    /\ lateAdd' = [lateAdd EXCEPT !.landed = renderNo]
    /\ hostBlocked' = <<>>
    /\ UNCHANGED <<passLocked, initCount, everActive, lastDrawn, renderNo>>
    /\ UNCHANGED pipeVars

\* pass.lock().unwrap().remove_drawable(d)
remove_drawable(d) ==
    /\ hostBlocked = <<>>
    /\ ~passLocked
    /\ drawables' = HeapRetainNot(drawables, d)
    /\ new_drawables' = VecRetainNot(new_drawables, d)
    /\ cancelled' = IF d \in DrawablesOf(new_drawables)
                       /\ d \notin DrawablesOf(drawables)
                    THEN cancelled \cup {d} ELSE cancelled
    /\ lateAdd' = IF lateAdd.drawable = d THEN NoLateAdd ELSE lateAdd
    /\ UNCHANGED <<passLocked, initCount, everActive, lastDrawn, renderNo,
                   hostBlocked>>
    /\ UNCHANGED pipeVars

\* PrimaryDrawPass::render up to the collection of the guards
RenderDrain ==
    /\ ~passLocked
    /\ passLocked' = TRUE
    /\ renderNo' = renderNo + 1
    /\ initCount' = InitEach(initCount, new_drawables)
    /\ drawables' = DrainInto(drawables, new_drawables)
    /\ new_drawables' = DrainRest(new_drawables)
    /\ everActive' = everActive \cup DrawablesOf(new_drawables)
    /\ lastDrawn' = <<>>
    /\ UNCHANGED <<cancelled, hostBlocked, lateAdd>>

\* PrimaryDrawPass::render from the guards to the end: draw in iter() order
RenderDraw ==
    /\ passLocked
    /\ GuardsAcquirable(drawables)
    /\ lastDrawn' = HeapIter(drawables)
    /\ passLocked' = FALSE
    /\ lateAdd' = IF lateAdd.landed >= 0 /\ renderNo > lateAdd.landed
                  THEN NoLateAdd ELSE lateAdd
    /\ UNCHANGED <<drawables, new_drawables, initCount, everActive, cancelled,
                   renderNo, hostBlocked>>

passVars == <<drawables, new_drawables, passLocked, initCount, everActive,
              cancelled, lastDrawn, renderNo, hostBlocked, lateAdd>>

\* if !self.initialized
NeedsInit_always(flag) == TRUE
NeedsInit(flag) == ~flag

\* DefaultRenderPipeline::init, lines 113-117: init of each pass in turn
RECURSIVE InitPasses(_, _, _)
InitPasses(ic, heap, n) ==
    IF n = 0 THEN ic
    ELSE InitPasses(PrimaryDrawPass_init(ic, heap), heap, n - 1)

\* ---------------------------------------------------------- ComputePass
\* ComputeTask::init / ComputeTask::compute on every task of the pass, counted
RECURSIVE CountEach(_, _)
CountEach(count, tasks) ==
    IF tasks = <<>> THEN count
    ELSE CountEach([count EXCEPT ![Head(tasks)] = @ + 1], Tail(tasks))

\* if !self.initialized { panic!(..) }
RenderRefused_never(flag) == FALSE
RenderRefused(flag) == ~flag

\* panic!("ComputePass '{}' not initialized", self.name)
NotInitialized(name) == <<"ComputePass '", name, "' not initialized">>

\* ComputePass::add_task
ComputePass_add_task(c, t) ==
    /\ panicked = <<>>
    /\ rmode # "pipeline"
    /\ Len(cp_tasks[c]) < MaxTasks
    /\ cp_tasks' = [cp_tasks EXCEPT ![c] = Append(@, t)]
    /\ UNCHANGED <<cp_initialized, cp_renders, taskInit, taskCompute,
                   panicked>>

\* ComputePass::init: what it does to the pass and its tasks
ComputeInitEffect(c) ==
    /\ taskInit' = CountEach(taskInit, cp_tasks[c])
    /\ cp_initialized' = [cp_initialized EXCEPT ![c] = TRUE]

\* ComputePass::render: what it does to the pass and its tasks
ComputeRenderEffect(c) ==
    /\ cp_renders' = [cp_renders EXCEPT ![c] = @ + 1]
    /\ IF RenderRefused(cp_initialized[c])
       THEN /\ panicked' = NotInitialized(c)
            /\ UNCHANGED taskCompute
       ELSE /\ taskCompute' = CountEach(taskCompute, cp_tasks[c])
            /\ UNCHANGED panicked
    /\ UNCHANGED <<cp_tasks, cp_initialized, taskInit>>

\* RenderPass::init called on the pass by an owner of its handle, who calls
\* it on a pass that is not initialized yet
ComputePass_init(c) ==
    /\ panicked = <<>>
    /\ rmode = "idle"
    /\ ~cp_initialized[c]
    /\ ComputeInitEffect(c)
    /\ UNCHANGED <<cp_tasks, cp_renders, taskCompute, panicked>>

\* RenderPass::render called on the pass by an owner of its handle
ComputePass_render(c) ==
    /\ panicked = <<>>
    /\ rmode = "idle"
    /\ cp_renders[c] < MaxRenders
    /\ ComputeRenderEffect(c)

\* ------------------------------------------------ DefaultRenderPipeline
\* the entries of render_passes that are the draw pass
DrawPassEntries(passes) ==
    Cardinality({i \in 1..Len(passes) : passes[i] = "PrimaryDrawPass"})

\* DefaultRenderPipeline::init, lines 113-117, on the compute passes: the
\* tasks initialized and the passes marked
RECURSIVE InitComputeTasks(_, _)
InitComputeTasks(ti, passes) ==
    IF passes = <<>> THEN ti
    ELSE InitComputeTasks(IF Head(passes) \in ComputePasses
                          THEN CountEach(ti, cp_tasks[Head(passes)])
                          ELSE ti,
                          Tail(passes))

\* the passes in the order the pass loop visits them
PassLoop(passes) == passes

\* add_render_pass(pass): the pipeline is handed a pass, each pass once
add_render_pass(pass) ==
    /\ panicked = <<>>
    /\ rmode # "pipeline"
    /\ pass \notin SeqRange(render_passes)
    /\ render_passes' = Append(render_passes, pass)
    /\ UNCHANGED <<initialized, rmode, rpIdx, pipeRenderNo, initSteps,
                   gbgInitCount, passInitCount, preRenderCount,
                   passRenderCount, renderLog>>
    /\ UNCHANGED cvars
    /\ UNCHANGED passVars

\* DefaultRenderPipeline::render, lines 87-92: the one-time initialization
\* and pre_render; the pass loop follows in PipelinePassRender
DefaultRenderPipeline_render ==
    /\ panicked = <<>>
    /\ rmode = "idle"
    /\ pipeRenderNo < MaxRenders
    /\ renderNo + DrawPassEntries(render_passes) <= MaxRenders
    /\ LET doInit == NeedsInit(initialized)
           n == Len(render_passes)
       IN  /\ gbgInitCount' = IF doInit THEN gbgInitCount + 1
                              ELSE gbgInitCount
           /\ passInitCount' = IF doInit THEN passInitCount + n
                               ELSE passInitCount
           /\ initCount' = IF doInit
                           THEN InitPasses(initCount, drawables,
                                           DrawPassEntries(render_passes))
                           ELSE initCount
           /\ taskInit' = IF doInit
                          THEN InitComputeTasks(taskInit, render_passes)
                          ELSE taskInit
           /\ cp_initialized' =
                  [c \in ComputePasses |->
                      IF doInit /\ c \in SeqRange(render_passes) THEN TRUE
                      ELSE cp_initialized[c]]
           /\ initSteps' = IF doInit
                           THEN Append(initSteps,
                                       [call |-> pipeRenderNo + 1,
                                        passes |-> n,
                                        names |-> render_passes,
                                        pre_renders |-> preRenderCount,
                                        pass_renders |-> passRenderCount])
                           ELSE initSteps
           /\ initialized' = IF doInit THEN TRUE ELSE initialized
    /\ preRenderCount' = preRenderCount + 1
    /\ pipeRenderNo' = pipeRenderNo + 1
    /\ renderLog' = <<"pre_render">>
    /\ rmode' = IF render_passes = <<>> THEN "idle" ELSE "pipeline"
    /\ rpIdx' = IF render_passes = <<>> THEN 0 ELSE 1
    /\ UNCHANGED <<render_passes, passRenderCount>>
    /\ UNCHANGED <<cp_tasks, cp_renders, taskCompute, panicked>>
    /\ UNCHANGED <<drawables, new_drawables, passLocked, everActive,
                   cancelled, lastDrawn, renderNo, hostBlocked, lateAdd>>

\* lines 93-103: render_pass.lock().unwrap().render(..) of pass rpIdx
PipelinePassRender ==
    /\ rmode = "pipeline"
    /\ rpIdx \in 1..Len(render_passes)
    /\ PassLoop(render_passes)[rpIdx] = "PrimaryDrawPass"
    /\ RenderDrain
    /\ passRenderCount' = passRenderCount + 1
    /\ renderLog' = Append(renderLog, PassLoop(render_passes)[rpIdx])
    /\ UNCHANGED <<render_passes, initialized, rmode, rpIdx, pipeRenderNo,
                   initSteps, gbgInitCount, passInitCount, preRenderCount>>
    /\ UNCHANGED cvars

\* lines 93-103 for a ComputePass: its render runs to its end or panics
PipelineComputeRender ==
    /\ panicked = <<>>
    /\ rmode = "pipeline"
    /\ rpIdx \in 1..Len(render_passes)
    /\ PassLoop(render_passes)[rpIdx] \in ComputePasses
    /\ ComputeRenderEffect(PassLoop(render_passes)[rpIdx])
    /\ passRenderCount' = passRenderCount + 1
    /\ renderLog' = Append(renderLog, PassLoop(render_passes)[rpIdx])
    /\ IF panicked' # <<>>
       THEN rmode' = "panicked" /\ rpIdx' = rpIdx
       ELSE IF rpIdx < Len(render_passes)
       THEN rmode' = rmode /\ rpIdx' = rpIdx + 1
       ELSE rmode' = "idle" /\ rpIdx' = 0
    /\ UNCHANGED <<render_passes, initialized, pipeRenderNo, initSteps,
                   gbgInitCount, passInitCount, preRenderCount>>
    /\ UNCHANGED passVars

\* RenderPass::render called on the pass by another owner of its handle
DirectPassRender ==
    /\ rmode = "idle"
    /\ renderNo < MaxRenders
    /\ RenderDrain
    /\ rmode' = "direct"
    /\ UNCHANGED <<render_passes, initialized, rpIdx, pipeRenderNo,
                   initSteps, gbgInitCount, passInitCount, preRenderCount,
                   passRenderCount, renderLog>>
    /\ UNCHANGED cvars

\* the render of the pass returns and its guard is dropped
PassRenderReturn ==
    /\ RenderDraw
    /\ IF rmode = "pipeline" /\ rpIdx < Len(render_passes)
       THEN /\ rpIdx' = rpIdx + 1
            /\ rmode' = rmode
       ELSE /\ rpIdx' = 0
            /\ rmode' = "idle"
    /\ UNCHANGED <<render_passes, initialized, pipeRenderNo, initSteps,
                   gbgInitCount, passInitCount, preRenderCount,
                   passRenderCount, renderLog>>
    /\ UNCHANGED cvars

RInit ==
    /\ drawables = <<>>
    /\ new_drawables = <<>>
    /\ passLocked = FALSE
    /\ initCount = [d \in Drawables |-> 0]
    /\ everActive = {}
    /\ cancelled = {}
    /\ lastDrawn = <<>>
    /\ renderNo = 0
    /\ hostBlocked = <<>>
    /\ lateAdd = NoLateAdd
    /\ render_passes = <<>>
    /\ initialized = FALSE
    /\ rmode = "idle"
    /\ rpIdx = 0
    /\ pipeRenderNo = 0
    /\ initSteps = <<>>
    /\ gbgInitCount = 0
    /\ passInitCount = 0
    /\ preRenderCount = 0
    /\ passRenderCount = 0
    /\ renderLog = <<>>
    /\ cp_tasks = [c \in ComputePasses |-> <<>>]
    /\ cp_initialized = [c \in ComputePasses |-> FALSE]
    /\ cp_renders = [c \in ComputePasses |-> 0]
    /\ taskInit = [t \in Tasks |-> 0]
    /\ taskCompute = [t \in Tasks |-> 0]
    /\ panicked = <<>>

HasRoom(n) == Len(drawables) + Len(new_drawables) + Len(hostBlocked) < n


\* --------------------------------------------------------------- AppState
WindowEvents == {"Resized", "CloseRequested", "FocusedTrue", "FocusedFalse",
                 "RedrawRequested", "Other"}

\* window.last_frame.elapsed().as_secs_f64() < 1.0 / max_framerate as f64
\* (1.0 / 0.0 is +infinity: every elapsed time is below it)
ElapsedBelow_inverted(elapsed, rate) ==
    IF rate = 0 THEN FALSE ELSE elapsed * rate > TicksPerSec
ElapsedBelow(elapsed, rate) ==
    IF rate = 0 THEN TRUE ELSE elapsed * rate < TicksPerSec

\* lines 82-86: the frame-rate cap skips this cycle
CapSkips_never(w) == FALSE
CapSkips_vsyncToo(w) ==
    /\ max_framerate # <<>>
    /\ ElapsedBelow(now - last_frame[w], max_framerate[1])
CapSkips(w) ==
    /\ max_framerate # <<>>
    /\ ElapsedBelow(now - last_frame[w], max_framerate[1])
    /\ ~vsync

\* lines 58-60: the windows that get do_closed when QUIT is found set
ClosedOnQuit_target(id) == {id} \cap Windows
ClosedOnQuit(id) == Windows

NoEffect ==
    [target |-> None, event |-> None, quit |-> FALSE, exit |-> FALSE,
     closed |-> {}, resized |-> FALSE, focus |-> None, skipped |-> FALSE,
     frame |-> FALSE, acquired |-> FALSE, rendered |-> FALSE,
     submitted |-> FALSE, presented |-> FALSE, after_frame |-> FALSE,
     redraw |-> FALSE, window_events |-> 0, steps |-> <<>>,
     locks |-> <<>>, size |-> <<>>, window_resize |-> <<>>]

\* lines 91-121: the calls of a frame cycle that is not skipped, in the
\* order the arm makes them
FrameCycle_afterFrameFirst ==
    <<"last_frame", "do_after_frame", "get_current_texture", "create_view",
      "create_command_encoder", "render", "submit", "pre_present_notify",
      "present", "do_frame", "request_redraw">>
FrameCycle_presentFirst ==
    <<"last_frame", "do_frame", "get_current_texture", "create_view",
      "create_command_encoder", "pre_present_notify", "present", "render",
      "submit", "do_after_frame", "request_redraw">>
FrameCycle ==
    <<"last_frame", "do_frame", "get_current_texture", "create_view",
      "create_command_encoder", "render", "submit", "pre_present_notify",
      "present", "do_after_frame", "request_redraw">>

\* the calls made up to and including the first call named stop
UpTo_whole(calls, stop) == calls
RECURSIVE UpTo(_, _)
UpTo(calls, stop) ==
    IF calls = <<>> THEN <<>>
    ELSE IF Head(calls) = stop THEN <<stop>>
    ELSE <<Head(calls)>> \o UpTo(Tail(calls), stop)

\* lines 80-122: the RedrawRequested arm; texOk is the answer of
\* surface.get_current_texture()
RedrawArm(e, id, texOk) ==
    IF CapSkips(id)
    THEN \* request_redraw(); break
         [e EXCEPT !.skipped = TRUE, !.redraw = TRUE,
                   !.steps = <<"request_redraw">>]
    ELSE IF ~texOk
    THEN \* last_frame = now; do_frame(); Err => return
         [e EXCEPT !.frame = TRUE,
                   !.steps = UpTo(FrameCycle, "get_current_texture")]
    ELSE [e EXCEPT !.frame = TRUE, !.acquired = TRUE, !.rendered = TRUE,
                   !.submitted = TRUE, !.presented = TRUE,
                   !.after_frame = TRUE, !.redraw = TRUE,
                   !.window_events = 1,
                   !.steps = FrameCycle \o <<"do_window_event">>]

\* u32::max(1)
Max1_unclamped(x) == x
Max1(x) == IF x >= 1 THEN x ELSE 1

\* Window::configure_surface, lines 69-109: the configuration it stores;
\* size is handle.inner_size()
configure_surface(size, vs) ==
    [usage |-> "RENDER_ATTACHMENT",
     format |-> "formats[0]",
     width |-> Max1(size[1]),
     height |-> Max1(size[2]),
     present_mode |-> IF vs THEN "AutoVsync" ELSE "AutoNoVsync",
     alpha_mode |-> "alpha_modes[0]",
     view_formats |-> <<"view_format">>,
     desired_maximum_frame_latency |-> 1]

\* Window::resize_surface, lines 118-128: the configuration it stores
resize_surface(config, size) ==
    [width |-> Max1(size[1]),
     height |-> Max1(size[2]),
     format |-> config.format,
     present_mode |-> config.present_mode,
     alpha_mode |-> config.alpha_mode,
     usage |-> config.usage,
     desired_maximum_frame_latency |-> config.desired_maximum_frame_latency,
     view_formats |-> config.view_formats]

\* Window::resize_surface, lines 134-135: the arguments of
\* event_handler.window_resize
window_resize(size) == <<Max1(size[1]), Max1(size[2])>>

\* window.lock().unwrap(): the guard is taken and, where it is a temporary
\* of one statement, dropped at the end of that statement
Lock(w) == [op |-> "lock", window |-> w]
Unlock(w) == [op |-> "unlock", window |-> w]
Held(w) == <<Lock(w), Unlock(w)>>

\* lines 58-60: window.lock().unwrap().do_closed() for every window
RECURSIVE QuitLocks(_)
QuitLocks(ws) ==
    IF ws = <<>> THEN <<>> ELSE Held(Head(ws)) \o QuitLocks(Tail(ws))

\* lines 63-64: window.lock().unwrap().get_window_id() == window_id, for
\* the windows up to the one that matches
RECURSIVE LookupLocks(_, _)
LookupLocks(ws, id) ==
    IF ws = <<>> THEN <<>>
    ELSE Held(Head(ws))
             \o (IF Head(ws) = id THEN <<>> ELSE LookupLocks(Tail(ws), id))

\* lines 65-123: the guards taken inside the match arm. The guard of the
\* RedrawRequested arm is bound by let inside the arm and dropped where the
\* arm is left (break, return or its closing brace).
ArmLocks_guardKept(w, ev) ==
    CASE ev \in {"Resized", "CloseRequested", "FocusedTrue", "FocusedFalse"}
             -> Held(w)
      [] ev = "RedrawRequested" -> <<Lock(w)>>
      [] OTHER -> <<>>
ArmLocks(w, ev) ==
    CASE ev \in {"Resized", "CloseRequested", "FocusedTrue", "FocusedFalse"}
             -> Held(w)
      [] ev = "RedrawRequested" -> Held(w)
      [] OTHER -> <<>>

\* the window locks one window_event call takes and drops, in order; e is
\* what the call does
DispatchLocks(id, ev, e) ==
    IF e.quit THEN QuitLocks(WindowOrder)
    ELSE LookupLocks(WindowOrder, id)
             \o (IF id \in Windows
                 THEN ArmLocks(id, ev)
                          \o (IF e.window_events = 1 THEN Held(id) ELSE <<>>)
                 ELSE <<>>)

\* lines 63-64 and 126: the windows the loop hands the event to, those
\* whose get_window_id() is the event's window_id
Matched_all(id) == IF id \in Windows THEN Windows ELSE {}
Matched(id) == {w \in Windows : w = id}

\* AppState::window_event, lines 56-128: what one call does
Dispatch(id, ev, texOk, size) ==
    LET e == [NoEffect EXCEPT !.target = id, !.event = ev]
    IN  IF QUIT
        THEN [e EXCEPT !.quit = TRUE, !.exit = TRUE,
                       !.closed = ClosedOnQuit(id),
                       !.steps = <<"exit", "do_closed">>]
        ELSE IF Matched(id) = {}
        THEN e
        ELSE CASE ev = "Resized" ->
                    [e EXCEPT !.resized = TRUE, !.window_events = 1,
                              !.size = size,
                              !.window_resize = window_resize(size),
                              !.steps = <<"resize_surface",
                                          "do_window_event">>]
               [] ev = "CloseRequested" ->
                    [e EXCEPT !.closed = {id}, !.exit = TRUE,
                              !.window_events = 1,
                              !.steps = <<"do_closed", "exit",
                                          "do_window_event">>]
               [] ev = "FocusedTrue" ->
                    [e EXCEPT !.focus = "window_focus", !.window_events = 1,
                              !.steps = <<"do_focus", "do_window_event">>]
               [] ev = "FocusedFalse" ->
                    [e EXCEPT !.focus = "window_unfocus",
                              !.window_events = 1,
                              !.steps = <<"do_focus", "do_window_event">>]
               [] ev = "RedrawRequested" -> RedrawArm(e, id, texOk)
               [] OTHER -> [e EXCEPT !.window_events = 1,
                                     !.steps = <<"do_window_event">>]

settingsVars == <<vsync, max_framerate>>

\* one loop of AppState::resumed: the call made on every window in turn
RECURSIVE ForEachWindow(_, _)
ForEachWindow(call, ws) ==
    IF ws = <<>> THEN <<>>
    ELSE <<[call |-> call, window |-> Head(ws)]>>
             \o ForEachWindow(call, Tail(ws))

\* the calls of AppState::resumed in the order it makes them
RECURSIVE ResumeCalls_perWindow(_)
ResumeCalls_perWindow(ws) ==
    IF ws = <<>> THEN <<>>
    ELSE ForEachWindow("init", <<Head(ws)>>)
             \o ForEachWindow("configure_surface", <<Head(ws)>>)
             \o ForEachWindow("do_device_init", <<Head(ws)>>)
             \o ForEachWindow("request_redraw", <<Head(ws)>>)
             \o ResumeCalls_perWindow(Tail(ws))
ResumeCalls(ws) ==
    ForEachWindow("init", ws)
        \o ForEachWindow("configure_surface", ws)
        \o ForEachWindow("do_device_init", ws)
        \o ForEachWindow("request_redraw", ws)

CalledOn(log, call) ==
    {log[i].window : i \in {j \in 1..Len(log) : log[j].call = call}}

\* AppState::resumed: init, configure_surface, do_device_init and
\* request_redraw for every window; the event loop calls it once, first
resumed(inner_size) ==
    /\ panicked = <<>>
    /\ resumeLog = <<>>
    /\ resumeLog' = ResumeCalls(WindowOrder)
    /\ instance' = [w \in Windows |-> w \in CalledOn(resumeLog', "init")]
    /\ surface_config' =
           [w \in Windows |->
               IF w \in CalledOn(resumeLog', "configure_surface")
               THEN <<configure_surface(inner_size[w], vsync)>>
               ELSE surface_config[w]]
    /\ redraw_requested' =
           [w \in Windows |-> w \in CalledOn(resumeLog', "request_redraw")]
    /\ UNCHANGED <<QUIT, exiting, now, last_frame, closeCount, frameCount,
                   prev_frame, lastSubmit, prevSubmit, submitCount,
                   submitsAtQuit, closeSeen, quitDispatches, dispatched,
                   windowCall, afterFrameCount, last>>
    /\ UNCHANGED settingsVars

\* AppState::window_event(event_loop, window_id, event). A frame that is
\* submitted takes dur ticks from Instant::now() to queue.submit; texOk and
\* dur are only drawn where the handler reads them.
window_event(id, ev, texOk, dur, size) ==
    /\ panicked = <<>>
    /\ resumeLog # <<>>
    /\ dispatched < MaxEvents
    /\ now + dur <= MaxTime
    /\ LET e == Dispatch(id, ev, texOk, size)
       IN  /\ dur > 0 => e.submitted
           /\ ~texOk => e.frame
           /\ last' = [e EXCEPT !.locks = DispatchLocks(id, ev, e)]
           /\ surface_config' =
                  [w \in Windows |->
                      IF e.resized /\ w \in Matched(id)
                      THEN <<resize_surface(surface_config[w][1], size)>>
                      ELSE surface_config[w]]
           /\ exiting' = (exiting \/ e.exit)
           /\ closeCount' = [w \in Windows |->
                                IF w \in e.closed THEN closeCount[w] + 1
                                ELSE closeCount[w]]
           /\ last_frame' =
                  [w \in Windows |->
                      IF e.frame /\ w \in Matched(id) THEN now
                      ELSE last_frame[w]]
           /\ prev_frame' =
                  [w \in Windows |->
                      IF e.frame /\ w \in Matched(id)
                      THEN IF frameCount[w] = 0 THEN -1 ELSE last_frame[w]
                      ELSE prev_frame[w]]
           /\ frameCount' =
                  [w \in Windows |->
                      IF e.frame /\ w \in Matched(id) THEN frameCount[w] + 1
                      ELSE frameCount[w]]
           /\ afterFrameCount' =
                  [w \in Windows |->
                      IF e.after_frame /\ w \in Matched(id)
                      THEN afterFrameCount[w] + 1
                      ELSE afterFrameCount[w]]
           /\ redraw_requested' =
                  [w \in Windows |->
                      IF w \in Matched(id) /\ ev = "RedrawRequested"
                      THEN e.redraw
                      ELSE redraw_requested[w]
                               \/ (w \in Matched(id) /\ e.redraw)]
           /\ lastSubmit' =
                  [w \in Windows |->
                      IF e.submitted /\ w \in Matched(id) THEN now + dur
                      ELSE lastSubmit[w]]
           /\ prevSubmit' =
                  [w \in Windows |->
                      IF e.submitted /\ w \in Matched(id) THEN lastSubmit[w]
                      ELSE prevSubmit[w]]
           /\ submitCount' = IF e.submitted THEN submitCount + 1
                             ELSE submitCount
           /\ now' = now + dur
           /\ quitDispatches' = IF e.quit THEN quitDispatches + 1
                                ELSE quitDispatches
           /\ closeSeen' = IF ~e.quit /\ e.closed # {}
                           THEN closeSeen \cup e.closed ELSE closeSeen
    /\ dispatched' = dispatched + 1
    /\ UNCHANGED <<instance, QUIT, submitsAtQuit, resumeLog, windowCall>>
    /\ UNCHANGED settingsVars

\* the host sets the quit flag
SetQuit ==
    /\ ~QUIT
    /\ QUIT' = TRUE
    /\ submitsAtQuit' = submitCount
    /\ UNCHANGED <<instance, surface_config, exiting, now, last_frame,
                   redraw_requested, closeCount, frameCount, prev_frame,
                   lastSubmit, prevSubmit, submitCount, closeSeen,
                   quitDispatches, dispatched, last, resumeLog,
                   windowCall, afterFrameCount>>
    /\ UNCHANGED settingsVars

\* time passes between two events
Tick ==
    /\ now < MaxTime
    /\ now' = now + 1
    /\ UNCHANGED <<instance, surface_config, QUIT, exiting, last_frame,
                   redraw_requested, closeCount, frameCount, prev_frame,
                   lastSubmit, prevSubmit, submitCount, submitsAtQuit,
                   closeSeen, quitDispatches, dispatched, last, resumeLog,
                   windowCall, afterFrameCount>>
    /\ UNCHANGED settingsVars

\* the Window methods that read self.instance or self.surface_config
WindowOps == {"init", "get_surface", "get_window_id", "request_redraw",
              "configure_surface", "resize_surface"}

\* self.instance.as_ref().unwrap() and self.surface_config.as_ref().unwrap():
\* the method panics on None
WindowOpPanics_silentRedraw(op, inst, config) ==
    CASE op \in {"get_surface", "get_window_id", "configure_surface"} -> ~inst
      [] op = "resize_surface" -> config = <<>> \/ ~inst
      [] OTHER -> FALSE
WindowOpPanics(op, inst, config) ==
    CASE op \in {"get_surface", "get_window_id", "request_redraw",
                 "configure_surface"} -> ~inst
      [] op = "resize_surface" -> config = <<>> \/ ~inst
      [] OTHER -> FALSE

\* Option::unwrap on None
UnwrapNone == <<"called Option::unwrap() on a None value">>

\* a Window method called on window w by a holder of its handle; size is
\* the size the method reads or is given
Window_call(w, op, size) ==
    /\ panicked = <<>>
    /\ IF WindowOpPanics(op, instance[w], surface_config[w])
       THEN /\ panicked' = UnwrapNone
            /\ windowCall' = <<[op |-> op, window |-> w,
                                outcome |-> "panicked"]>>
            /\ UNCHANGED <<instance, surface_config, redraw_requested>>
       ELSE /\ windowCall' = <<[op |-> op, window |-> w,
                                outcome |-> "returned"]>>
            /\ instance' = IF op = "init"
                           THEN [instance EXCEPT ![w] = TRUE] ELSE instance
            /\ surface_config' =
                   IF op = "configure_surface"
                   THEN [surface_config EXCEPT
                            ![w] = <<configure_surface(size, vsync)>>]
                   ELSE IF op = "resize_surface"
                   THEN [surface_config EXCEPT
                            ![w] = <<resize_surface(surface_config[w][1],
                                                    size)>>]
                   ELSE surface_config
            /\ redraw_requested' =
                   IF op = "request_redraw"
                   THEN [redraw_requested EXCEPT ![w] = TRUE]
                   ELSE redraw_requested
            /\ UNCHANGED panicked
    /\ UNCHANGED <<QUIT, exiting, now, last_frame, closeCount, frameCount,
                   prev_frame, lastSubmit, prevSubmit, submitCount,
                   submitsAtQuit, closeSeen, quitDispatches, dispatched,
                   resumeLog, afterFrameCount, last>>
    /\ UNCHANGED settingsVars
    /\ UNCHANGED <<passVars, render_passes, initialized, rmode, rpIdx,
                   pipeRenderNo, initSteps, gbgInitCount, passInitCount,
                   preRenderCount, passRenderCount, renderLog, cp_tasks,
                   cp_initialized, cp_renders, taskInit, taskCompute>>
    /\ UNCHANGED lvars

\* Window::new for every window; RenderSettings as given to the event loop
SInitWith(vs, rates) ==
    /\ resumeLog = <<>>
    /\ windowCall = <<>>
    /\ instance = [w \in Windows |-> FALSE]
    /\ surface_config = [w \in Windows |-> <<>>]
    /\ vsync \in vs
    /\ max_framerate \in rates
    /\ QUIT = FALSE
    /\ exiting = FALSE
    /\ now = 0
    /\ last_frame = [w \in Windows |-> 0]
    /\ redraw_requested = [w \in Windows |-> FALSE]
    /\ closeCount = [w \in Windows |-> 0]
    /\ frameCount = [w \in Windows |-> 0]
    /\ afterFrameCount = [w \in Windows |-> 0]
    /\ prev_frame = [w \in Windows |-> -1]
    /\ lastSubmit = [w \in Windows |-> -1]
    /\ prevSubmit = [w \in Windows |-> -1]
    /\ submitCount = 0
    /\ submitsAtQuit = -1
    /\ closeSeen = {}
    /\ quitDispatches = 0
    /\ dispatched = 0
    /\ last = NoEffect

SInit == SInitWith(BOOLEAN, {<<>>} \cup {<<r>> : r \in FrameRates})

\* ---------------------------------------------------------- specifications
\* no AppState call has been made
LInit == lockLog = <<>>

Init == RInit /\ SInitWith({FALSE}, {<<>>}) /\ LInit

Next ==
    \/ \E p \in AddInputs :
           HasRoom(MaxEntries) /\ add_drawable(p[1], p[2]) /\ UNCHANGED <<svars, lvars>>
    \/ add_drawable_resume /\ UNCHANGED <<svars, lvars>>
    \/ \E d \in Drawables : remove_drawable(d) /\ UNCHANGED <<svars, lvars>>
    \/ add_render_pass("PrimaryDrawPass") /\ UNCHANGED <<svars, lvars>>
    \/ DefaultRenderPipeline_render /\ UNCHANGED <<svars, lvars>>
    \/ PipelinePassRender /\ UNCHANGED <<svars, lvars>>
    \/ DirectPassRender /\ UNCHANGED <<svars, lvars>>
    \/ PassRenderReturn /\ UNCHANGED <<svars, lvars>>

Spec == Init /\ [][Next]_vars

SchedInit == RInit /\ SInit /\ LInit

SchedNext ==
    \/ \E inner_size \in [Windows -> SchedSizes] :
           resumed(inner_size) /\ UNCHANGED <<rvars, lvars>>
    \/ \E id \in Windows \cup {None}, ev \in WindowEvents, texOk \in BOOLEAN,
          dur \in 0..MaxFrameTicks, size \in SchedSizes :
           window_event(id, ev, texOk, dur, size) /\ UNCHANGED <<rvars, lvars>>
    \/ SetQuit /\ UNCHANGED <<rvars, lvars>>
    \/ Tick /\ UNCHANGED <<rvars, lvars>>

SpecSched == SchedInit /\ [][SchedNext]_vars

\* resume and Resized events with the sizes the OS may report, nothing else
WindowNext ==
    \/ \E inner_size \in [Windows -> Sizes] :
           resumed(inner_size) /\ UNCHANGED <<rvars, lvars>>
    \/ \E id \in Windows, size \in Sizes :
           window_event(id, "Resized", TRUE, 0, size) /\ UNCHANGED <<rvars, lvars>>

SpecWindow == SchedInit /\ [][WindowNext]_vars

\* the scheduler, and holders of the window handles calling Window methods
OpsNext ==
    \/ \E inner_size \in [Windows -> SchedSizes] :
           resumed(inner_size) /\ UNCHANGED <<rvars, lvars>>
    \/ \E id \in Windows \cup {None}, ev \in WindowEvents, texOk \in BOOLEAN,
          dur \in 0..MaxFrameTicks, size \in SchedSizes :
           window_event(id, ev, texOk, dur, size) /\ UNCHANGED <<rvars, lvars>>
    \/ \E w \in Windows, op \in WindowOps, size \in SchedSizes :
           Window_call(w, op, size)

SpecOps == SchedInit /\ [][OpsNext]_vars

\* add_drawable calls followed by renders of the pass, nothing else
OrderNext ==
    \/ \E p \in OrderInputs :
           HasRoom(MaxOrdered) /\ add_drawable(p[1], p[2]) /\ UNCHANGED <<svars, lvars>>
    \/ add_drawable_resume /\ UNCHANGED <<svars, lvars>>
    \/ DirectPassRender /\ UNCHANGED <<svars, lvars>>
    \/ PassRenderReturn /\ UNCHANGED <<svars, lvars>>

SpecOrder == Init /\ [][OrderNext]_vars

\* a pipeline over the draw pass and compute passes, and the owners of the
\* compute passes calling them directly
PipeNext ==
    \/ \E pass \in PassNames : add_render_pass(pass) /\ UNCHANGED <<svars, lvars>>
    \/ \E c \in ComputePasses, t \in Tasks :
           /\ ComputePass_add_task(c, t)
           /\ UNCHANGED <<passVars, render_passes, initialized, rmode, rpIdx,
                          pipeRenderNo, initSteps, gbgInitCount,
                          passInitCount, preRenderCount, passRenderCount,
                          renderLog, svars, lvars>>
    \/ \E c \in ComputePasses :
           /\ ComputePass_init(c)
           /\ UNCHANGED <<passVars, render_passes, initialized, rmode, rpIdx,
                          pipeRenderNo, initSteps, gbgInitCount,
                          passInitCount, preRenderCount, passRenderCount,
                          renderLog, svars, lvars>>
    \/ \E c \in ComputePasses :
           /\ ComputePass_render(c)
           /\ UNCHANGED <<passVars, render_passes, initialized, rmode, rpIdx,
                          pipeRenderNo, initSteps, gbgInitCount,
                          passInitCount, preRenderCount, passRenderCount,
                          renderLog, svars, lvars>>
    \/ DefaultRenderPipeline_render /\ UNCHANGED <<svars, lvars>>
    \/ PipelinePassRender /\ UNCHANGED <<svars, lvars>>
    \/ PipelineComputeRender /\ UNCHANGED <<svars, lvars>>
    \/ PassRenderReturn /\ UNCHANGED <<svars, lvars>>

SpecPipe == Init /\ [][PipeNext]_vars

\* ------------------------------------------------------------ the mutexes
\* x.lock().unwrap() on the mutex id of a class, and the drop of its guard
Acquire(class, id) == [op |-> "lock", class |-> class, id |-> id]
Release(class, id) == [op |-> "unlock", class |-> class, id |-> id]

\* a guard that is a temporary of a statement that locks nothing else
Taken(class, id) == <<Acquire(class, id), Release(class, id)>>

\* one statement of AppState::resumed run on every window: the window guard
\* is a temporary of the statement
RECURSIVE EachWindowTaken(_)
EachWindowTaken(ws) ==
    IF ws = <<>> THEN <<>>
    ELSE Taken("window", Head(ws)) \o EachWindowTaken(Tail(ws))

\* lines 29-35: window.lock().unwrap().configure_surface(&self.adapter,
\* &self.device.lock().unwrap(), ..); the temporaries are dropped at the end
\* of the statement, the last one made first
ConfigureLocks_deviceFirst(w) ==
    <<Acquire("device", "device"), Acquire("window", w),
      Release("window", w), Release("device", "device")>>
ConfigureLocks(w) ==
    <<Acquire("window", w), Acquire("device", "device"),
      Release("device", "device"), Release("window", w)>>

RECURSIVE EachWindowConfigured(_)
EachWindowConfigured(ws) ==
    IF ws = <<>> THEN <<>>
    ELSE ConfigureLocks(Head(ws)) \o EachWindowConfigured(Tail(ws))

\* lines 21-27: the title is read under one window guard, init is called
\* under a second one, window after window
RECURSIVE EachWindowCreated(_)
EachWindowCreated(ws) ==
    IF ws = <<>> THEN <<>>
    ELSE Taken("window", Head(ws)) \o Taken("window", Head(ws))
             \o EachWindowCreated(Tail(ws))

\* AppState::resumed: the loops of lines 21-27, 29-35, 39-44 and 45-47
ResumeLocks(ws) ==
    EachWindowCreated(ws)
        \o EachWindowConfigured(ws)
        \o EachWindowTaken(ws)
        \o EachWindowTaken(ws)

\* lines 66-72: window.lock().unwrap().resize_surface(
\* &self.device.lock().unwrap(), size, &self.queue.lock().unwrap())
ResizeLocks_queueFirst(w) ==
    <<Acquire("window", w), Acquire("queue", "queue"),
      Acquire("device", "device"), Release("device", "device"),
      Release("queue", "queue"), Release("window", w)>>
ResizeLocks(w) ==
    <<Acquire("window", w), Acquire("device", "device"),
      Acquire("queue", "queue"), Release("queue", "queue"),
      Release("device", "device"), Release("window", w)>>

\* lines 108-116: pipeline.lock() and then, in the arguments of render,
\* self.device.lock() and self.queue.lock(); w's pipeline is the mutex
RenderCallLocks_deviceFirst(w) ==
    <<Acquire("device", "device"), Acquire("queue", "queue"),
      Acquire("pipeline", w)>>
RenderCallLocks(w) ==
    <<Acquire("pipeline", w), Acquire("device", "device"),
      Acquire("queue", "queue")>>

\* line 116: the three guards are temporaries of the render statement
RenderCallDrops(w) ==
    <<Release("queue", "queue"), Release("device", "device"),
      Release("pipeline", w)>>

\* lines 81-116: the guard bound by let, the device guard of
\* create_command_encoder, and the guards of the render statement
RedrawOpen(w) ==
    <<Acquire("window", w)>> \o Taken("device", "device")
        \o RenderCallLocks(w)

\* lines 116-125: render has returned; queue.submit, the end of the arm, and
\* do_window_event
RedrawClose(w) ==
    RenderCallDrops(w) \o Taken("queue", "queue")
        \o <<Release("window", w)>> \o Taken("window", w)

\* d.lock().unwrap().init(..) / task.lock().unwrap().init(..) /
\* task.lock().unwrap().compute(..) for every element in turn
RECURSIVE EachTaken(_, _)
EachTaken(class, ids) ==
    IF ids = <<>> THEN <<>>
    ELSE Taken(class, Head(ids)) \o EachTaken(class, Tail(ids))

\* the Arc<Mutex<dyn Drawable>> of every element
RECURSIVE Handles(_)
Handles(elems) ==
    IF elems = <<>> THEN <<>>
    ELSE <<Head(elems).drawable>> \o Handles(Tail(elems))

\* PrimaryDrawPass::render, lines 108-111: drawables.push(
\* d.drawable.lock().unwrap()) for every element of the heap
RECURSIVE GuardLocks(_)
GuardLocks(ids) ==
    IF ids = <<>> THEN <<>>
    ELSE <<Acquire("drawable", Head(ids))>> \o GuardLocks(Tail(ids))

\* the Vec of guards is dropped where render returns, front to back
RECURSIVE GuardDrops(_)
GuardDrops(ids) ==
    IF ids = <<>> THEN <<>>
    ELSE <<Release("drawable", Head(ids))>> \o GuardDrops(Tail(ids))

\* what the init of one pass locks: PrimaryDrawPass::init its drawables,
\* ComputePass::init its tasks
PassInnerInit(pass) ==
    IF pass \in ComputePasses THEN EachTaken("task", cp_tasks[pass])
    ELSE EachTaken("drawable", Handles(HeapIter(drawables)))

\* DefaultRenderPipeline::init, lines 113-117: pass.lock().unwrap().init(..)
RECURSIVE PipelineInitLocks(_)
PipelineInitLocks(passes) ==
    IF passes = <<>> THEN <<>>
    ELSE <<Acquire("pass", Head(passes))>> \o PassInnerInit(Head(passes))
             \o <<Release("pass", Head(passes))>>
             \o PipelineInitLocks(Tail(passes))

\* the guards one window_event call takes and drops when it does not reach
\* the render statement; e is what the call does. A RedrawRequested arm that
\* is left early has taken its window guard only.
EventLocks(id, ev, e) ==
    IF e.quit THEN EachWindowTaken(WindowOrder)
    ELSE EachWindowTaken(SubSeq(WindowOrder, 1,
                                Len(LookupLocks(WindowOrder, id)) \div 2))
             \o (IF id \notin Windows THEN <<>>
                 ELSE (CASE ev = "Resized" -> ResizeLocks(id)
                         [] ev \in {"CloseRequested", "FocusedTrue",
                                    "FocusedFalse", "RedrawRequested"}
                                -> Taken("window", id)
                         [] OTHER -> <<>>)
                      \o (IF e.window_events = 1 THEN Taken("window", id)
                          ELSE <<>>))

\* the scheduler: resumed once, then window_event calls; a call runs to its
\* end before the next one is made
LockedResume ==
    /\ rmode = "idle"
    /\ \E inner_size \in [Windows -> SchedSizes] : resumed(inner_size)
    /\ lockLog' = ResumeLocks(WindowOrder)
    /\ UNCHANGED rvars

LockedEvent(id, ev, texOk, size) ==
    /\ rmode = "idle"
    /\ ~Dispatch(id, ev, texOk, size).rendered
    /\ window_event(id, ev, texOk, 0, size)
    /\ lockLog' = EventLocks(id, ev, Dispatch(id, ev, texOk, size))
    /\ UNCHANGED rvars

\* a RedrawRequested that reaches the render statement, up to the pass loop
\* of DefaultRenderPipeline::render
LockedRedraw(id, dur, size) ==
    /\ Dispatch(id, "RedrawRequested", TRUE, size).rendered
    /\ window_event(id, "RedrawRequested", TRUE, dur, size)
    /\ DefaultRenderPipeline_render
    /\ lockLog' =
           EachWindowTaken(SubSeq(WindowOrder, 1,
                                  Len(LookupLocks(WindowOrder, id)) \div 2))
               \o RedrawOpen(id)
               \o (IF NeedsInit(initialized)
                   THEN PipelineInitLocks(render_passes) ELSE <<>>)
               \o (IF rmode' = "idle" THEN RedrawClose(id) ELSE <<>>)

\* rendering/mod.rs lines 93-103 on the draw pass, up to its guards
LockedPassRender ==
    /\ PipelinePassRender
    /\ lockLog' = lockLog \o <<Acquire("pass", "PrimaryDrawPass")>>
                      \o EachTaken("drawable", Handles(new_drawables))
    /\ UNCHANGED svars

\* the draw pass takes its guards, draws and returns
LockedPassReturn ==
    /\ PassRenderReturn
    /\ lockLog' = lockLog \o GuardLocks(Handles(HeapIter(drawables)))
                      \o GuardDrops(Handles(HeapIter(drawables)))
                      \o <<Release("pass", "PrimaryDrawPass")>>
                      \o (IF rmode' = "idle" THEN RedrawClose(last.target)
                          ELSE <<>>)
    /\ UNCHANGED svars

\* rendering/mod.rs lines 93-103 on a compute pass; a panic unwinds through
\* the guard of the pass
LockedComputeRender ==
    /\ PipelineComputeRender
    /\ LET c == PassLoop(render_passes)[rpIdx]
       IN  lockLog' = lockLog \o <<Acquire("pass", c)>>
                          \o (IF panicked' # <<>> THEN <<>>
                              ELSE EachTaken("task", cp_tasks[c]))
                          \o <<Release("pass", c)>>
                          \o (IF rmode' = "idle" THEN RedrawClose(last.target)
                              ELSE <<>>)
    /\ UNCHANGED svars

\* the pipeline gets its passes and the compute passes their tasks before
\* the event loop runs; drawables are handed over then and between its calls
LocksNext ==
    \/ \E pass \in {"PrimaryDrawPass", "compute1"} :
           /\ resumeLog = <<>>
           /\ add_render_pass(pass)
           /\ UNCHANGED <<svars, lvars>>
    \/ \E c \in {"compute1"}, t \in Tasks :
           /\ resumeLog = <<>>
           /\ ComputePass_add_task(c, t)
           /\ UNCHANGED <<passVars, render_passes, initialized, rmode, rpIdx,
                          pipeRenderNo, initSteps, gbgInitCount,
                          passInitCount, preRenderCount, passRenderCount,
                          renderLog, svars, lvars>>
    \/ \E p \in AddInputs :
           /\ rmode = "idle"
           /\ HasRoom(MaxEntries)
           /\ add_drawable(p[1], p[2])
           /\ UNCHANGED <<svars, lvars>>
    \/ LockedResume
    \/ \E id \in Windows \cup {None}, texOk \in BOOLEAN, size \in SchedSizes,
          ev \in {"Resized", "RedrawRequested"} :
           LockedEvent(id, ev, texOk, size)
    \/ \E id \in Windows, size \in SchedSizes : LockedRedraw(id, 0, size)
    \/ LockedPassRender
    \/ LockedPassReturn
    \/ LockedComputeRender

\* RenderSettings without vsync, with no frame-rate cap or with Some(0)
LocksInit == RInit /\ SInitWith({FALSE}, {<<>>, <<0>>}) /\ LInit

SpecLocks == LocksInit /\ [][LocksNext]_vars

\* ------------------------------------------------------------ claims
NonDecreasing(zs) == \A i \in 1..Len(zs) - 1 : zs[i] <= zs[i + 1]
DistinctZ(s) == \A i, j \in 1..Len(s) : i # j => s[i].z # s[j].z

\* C1: after add_drawable calls with pairwise distinct z values, a render
\* draws the drawables in non-decreasing z order.
C1_DrawnInZOrder ==
    DistinctZ(lastDrawn) => NonDecreasing(ZOrder(lastDrawn))

\* C2 as stated: after any sequence of operations of the pass (none of
\* them still running) a pending drawable has never had init called and an
\* active drawable has had init called exactly once.
C2_InitExactlyOnce ==
    ~passLocked =>
    /\ \A i \in 1..Len(new_drawables) : initCount[new_drawables[i].drawable] = 0
    /\ \A i \in 1..Len(drawables) : initCount[drawables[i].drawable] = 1

\* C2 amended: a pending drawable that has never been in the active
\* structure has never had init called, and an active drawable has had init
\* called at least once.
C2_InitAtLeastOnce ==
    /\ \A i \in 1..Len(new_drawables) :
           new_drawables[i].drawable \notin everActive
               => initCount[new_drawables[i].drawable] = 0
    /\ \A i \in 1..Len(drawables) : initCount[drawables[i].drawable] >= 1

C2_Witness ==
    /\ renderNo >= 2
    /\ \E i \in 1..Len(drawables) : initCount[drawables[i].drawable] >= 2
    /\ \E i \in 1..Len(new_drawables) :
           /\ new_drawables[i].drawable \notin everActive
           /\ initCount[new_drawables[i].drawable] = 0

\* C3: over any number of DefaultRenderPipeline::render calls the one-time
\* initialization (GlobalBindGroup::init and the init of each pass) runs
\* exactly once, in the first call and before its pre_render and its pass
\* renders; initialized goes from false to true once and stays true.
C3_InitStepOnce ==
    /\ initialized = (pipeRenderNo >= 1)
    /\ Len(initSteps) = (IF pipeRenderNo >= 1 THEN 1 ELSE 0)
    /\ gbgInitCount = Len(initSteps)
    /\ \A i \in 1..Len(initSteps) :
           /\ initSteps[i].call = 1
           /\ initSteps[i].pre_renders = 0
           /\ initSteps[i].pass_renders = 0
           /\ passInitCount = initSteps[i].passes
    /\ initSteps = <<>> => passInitCount = 0

C3_InitializedOnce ==
    []C3_InitStepOnce /\ [][initialized => initialized']_vars

C3_Witness ==
    /\ pipeRenderNo >= 2
    /\ passInitCount = 1
    /\ passRenderCount >= 2
    /\ rmode = "idle"

\* C9: a drawable whose add_drawable was invoked while a render of the pass
\* was in progress is neither initialized nor drawn before add_drawable has
\* returned, and is initialized and drawn by the next render after that.
C9_AbsentUntilLanded ==
    (lateAdd.drawable # None /\ lateAdd.fresh) =>
        /\ (lateAdd.landed = -1 \/ renderNo = lateAdd.landed) =>
               /\ initCount[lateAdd.drawable] = lateAdd.inits
               /\ lateAdd.drawable \notin DrawablesOf(lastDrawn)
               /\ lateAdd.drawable \notin DrawablesOf(drawables)
        /\ (lateAdd.landed >= 0 /\ renderNo > lateAdd.landed) =>
               /\ renderNo = lateAdd.landed + 1
               /\ initCount[lateAdd.drawable] > lateAdd.inits
               /\ lateAdd.drawable \in DrawablesOf(drawables)

C9_DrawnByNextRender ==
    (/\ lateAdd.drawable # None
     /\ lateAdd.fresh
     /\ lateAdd.landed >= 0
     /\ renderNo = lateAdd.landed + 1
     /\ passLocked
     /\ ~passLocked') => lateAdd.drawable \in DrawablesOf(lastDrawn')

C10_Step ==
    \A d \in cancelled \cap cancelled' :
        /\ initCount'[d] = initCount[d]
        /\ (passLocked /\ ~passLocked') => d \notin DrawablesOf(lastDrawn')

C10_CancelledNeverUsed == [][C10_Step]_vars

\* a render that began after the removal is under way
C10_Witness ==
    \E d \in cancelled :
        /\ d \notin everActive
        /\ initCount[d] = 0
        /\ passLocked
        /\ drawables # <<>>

\* C4 as stated: with vsync off and max_framerate = F, two consecutive
\* frames a window submits to the queue are never less than 1/F s apart.
C4_SubmitsApart ==
    (~vsync /\ max_framerate # <<>>) =>
        \A w \in Windows :
            prevSubmit[w] >= 0 =>
                (lastSubmit[w] - prevSubmit[w]) * max_framerate[1]
                    >= TicksPerSec

\* C4 amended: with vsync off and max_framerate = F, the last_frame times
\* of two consecutive frame cycles of a window that were not skipped are
\* never less than 1/F s apart.
C4_FrameStartsApart ==
    (~vsync /\ max_framerate # <<>>) =>
        \A w \in Windows :
            prev_frame[w] >= 0 =>
                (last_frame[w] - prev_frame[w]) * max_framerate[1]
                    >= TicksPerSec

C4_Witness ==
    /\ ~vsync
    /\ max_framerate # <<>>
    /\ \E w \in Windows :
          /\ frameCount[w] >= 2
          /\ prevSubmit[w] >= 0
          /\ last.target = w
          /\ last.submitted

\* C5: after a CloseRequested event, once the quit flag is set and further
\* events have been dispatched, every window has received exactly one close
\* notification in total and nothing has been submitted since the flag.
C5_OneCloseEach ==
    (closeSeen # {} /\ QUIT /\ quitDispatches >= 1) =>
        /\ \A w \in Windows : closeCount[w] = 1
        /\ submitCount = submitsAtQuit

\* C6: a dispatch that finds the quit flag set requests loop exit, notifies
\* every window of closure in that same dispatch and does no type-specific
\* handling of the event.
C6_Step ==
    (dispatched' = dispatched + 1 /\ QUIT) =>
        /\ exiting'
        /\ last'.quit
        /\ \A w \in Windows : closeCount'[w] = closeCount[w] + 1
        /\ ~last'.resized
        /\ last'.focus = None
        /\ ~last'.skipped
        /\ ~last'.frame
        /\ ~last'.acquired
        /\ ~last'.rendered
        /\ ~last'.submitted
        /\ ~last'.presented
        /\ ~last'.after_frame
        /\ last'.window_events = 0
        /\ UNCHANGED <<last_frame, frameCount, submitCount, lastSubmit>>

C6_QuitClosesAll == [][C6_Step]_vars

C6_Witness ==
    /\ last.quit
    /\ last.event = "RedrawRequested"
    /\ exiting
    /\ \A w \in Windows : closeCount[w] >= 1

\* C7: when texture acquisition fails in a window's frame cycle, a redraw
\* is still requested for that window.
C7_RedrawAfterFailure ==
    (last.frame /\ ~last.acquired) => redraw_requested[last.target]

\* C8: with the quit flag not set, every event for a known window reaches
\* that window's do_window_event exactly once.
C8_WindowEventOnce ==
    (dispatched >= 1 /\ ~last.quit /\ last.target \in Windows) =>
        last.window_events = 1

\* C11: in AppState::resumed every window is given its OS window and
\* surface before any surface is configured, every surface is configured
\* before any do_device_init, and every do_device_init is made before any
\* redraw is requested; each call is made once on every window.
PhaseRank(call) ==
    CASE call = "init" -> 1
      [] call = "configure_surface" -> 2
      [] call = "do_device_init" -> 3
      [] call = "request_redraw" -> 4

C11_PhasesAreBarriers ==
    resumeLog # <<>> =>
        /\ \A i, j \in 1..Len(resumeLog) :
               PhaseRank(resumeLog[i].call) < PhaseRank(resumeLog[j].call)
                   => i < j
        /\ \A w \in Windows :
             \A c \in {"init", "configure_surface", "do_device_init",
                       "request_redraw"} :
               Cardinality({i \in 1..Len(resumeLog) :
                               resumeLog[i] = [call |-> c, window |-> w]}) = 1

C11_Witness ==
    /\ Len(resumeLog) = 4 * Cardinality(Windows)
    /\ \A w \in Windows : instance[w] /\ surface_config[w] # <<>>
                              /\ redraw_requested[w]

\* C12: a frame cycle that is not skipped and acquires its texture makes
\* each of these calls exactly once and in this order: record last_frame,
\* do_frame, acquire the texture, create the encoder, pipeline render,
\* submit, pre_present_notify, present, do_after_frame, request_redraw.
Occurrences(calls, c) == {i \in 1..Len(calls) : calls[i] = c}

C12_Order ==
    <<"last_frame", "do_frame", "get_current_texture",
      "create_command_encoder", "render", "submit", "pre_present_notify",
      "present", "do_after_frame", "request_redraw">>

C12_FrameCycleOrder ==
    (last.frame /\ last.acquired) =>
        /\ \A k \in 1..Len(C12_Order) :
               Cardinality(Occurrences(last.steps, C12_Order[k])) = 1
        /\ \A k \in 1..Len(C12_Order) - 1 :
               \A i \in Occurrences(last.steps, C12_Order[k]) :
                   \A j \in Occurrences(last.steps, C12_Order[k + 1]) : i < j
        /\ last.rendered /\ last.submitted /\ last.presented
        /\ last.after_frame /\ last.redraw
        /\ redraw_requested[last.target]

C12_Witness ==
    /\ last.frame
    /\ last.acquired
    /\ last.event = "RedrawRequested"
    /\ Len(last.steps) >= 10
    /\ submitCount >= 1

\* C19: a RedrawRequested that arrives for a window sooner than 1/F s
\* after its last frame (max_framerate = F set, vsync off) is skipped:
\* one redraw is re-requested, last_frame is unchanged, do_frame and
\* do_after_frame are not notified and nothing is acquired, encoded,
\* rendered, submitted or presented.
C19_Step ==
    \A w \in Windows :
        (/\ dispatched' = dispatched + 1
         /\ ~QUIT
         /\ last'.target = w
         /\ last'.event = "RedrawRequested"
         /\ ~vsync
         /\ max_framerate # <<>>
         /\ (now - last_frame[w]) * max_framerate[1] < TicksPerSec)
        => /\ last'.skipped
           /\ Cardinality(Occurrences(last'.steps, "request_redraw")) = 1
           /\ redraw_requested'[w]
           /\ last_frame' = last_frame
           /\ frameCount' = frameCount
           /\ submitCount' = submitCount
           /\ lastSubmit' = lastSubmit
           /\ \A c \in {"last_frame", "do_frame", "do_after_frame",
                        "get_current_texture", "create_command_encoder",
                        "render", "submit", "present"} :
                  Occurrences(last'.steps, c) = {}
           /\ ~last'.frame /\ ~last'.acquired /\ ~last'.rendered
           /\ ~last'.submitted /\ ~last'.presented /\ ~last'.after_frame

C19_SkippedCycleDoesNothing == [][C19_Step]_vars

C19_Witness ==
    /\ last.skipped
    /\ max_framerate # <<>>
    /\ max_framerate[1] > 0
    /\ frameCount[last.target] >= 1
    /\ redraw_requested[last.target]

\* C20: with vsync on no frame cycle is skipped because of max_framerate:
\* every RedrawRequested for a known window (quit flag not set) goes on to
\* do_frame and texture acquisition, whatever the elapsed time and the cap.
C20_VsyncNeverSkips ==
    (/\ vsync
     /\ dispatched >= 1
     /\ ~last.quit
     /\ last.target \in Windows
     /\ last.event = "RedrawRequested")
    => /\ ~last.skipped
       /\ last.frame
       /\ Occurrences(last.steps, "do_frame") # {}
       /\ Occurrences(last.steps, "get_current_texture") # {}

C20_Witness ==
    /\ vsync
    /\ max_framerate # <<>>
    /\ last.frame
    /\ last.event = "RedrawRequested"
    /\ max_framerate[1] > 0
    /\ frameCount[last.target] >= 2
    /\ (last_frame[last.target] - prev_frame[last.target]) * max_framerate[1]
           < TicksPerSec

\* C17: a window only moves Unbound -> Bound -> Configured -> Closed;
\* do_closed is the only way into Closed and Closed is terminal: a window
\* that has received do_closed gets no further resize, focus, frame cycle
\* or do_window_event from the scheduler and is never closed again.
C17_Step ==
    /\ \A w \in Windows :
           /\ surface_config'[w] # <<>> => instance'[w]
           /\ instance[w] => instance'[w]
           /\ surface_config[w] # <<>> => surface_config'[w] # <<>>
           /\ closeCount'[w] >= closeCount[w]
    /\ \A w \in Windows :
           (closeCount[w] >= 1 /\ dispatched' = dispatched + 1) =>
               /\ closeCount'[w] = closeCount[w]
               /\ last'.target = w =>
                      /\ ~last'.resized
                      /\ last'.focus = None
                      /\ ~last'.skipped
                      /\ ~last'.frame
                      /\ last'.window_events = 0

C17_ClosedIsTerminal == [][C17_Step]_vars

\* C18: while one window event is dispatched the scheduler never locks a
\* window whose guard it still holds, on any branch (id lookup, resize,
\* close, focus, redraw with its cap-skip and acquisition-failure exits,
\* and the final do_window_event).
HeldAfter(locks, n, w) ==
    Cardinality({i \in 1..n : locks[i] = Lock(w)})
        - Cardinality({i \in 1..n : locks[i] = Unlock(w)})

C18_NoSecondLock ==
    \A n \in 1..Len(last.locks) :
        last.locks[n].op = "lock" =>
            HeldAfter(last.locks, n - 1, last.locks[n].window) = 0

C18_Witness ==
    /\ last.event = "RedrawRequested"
    /\ last.acquired
    /\ last.window_events = 1
    /\ last.target = WindowOrder[Len(WindowOrder)]
    /\ Len(last.locks) = 2 * Len(WindowOrder) + 4

\* C16: resize_surface on a configured window stores the previous
\* configuration with width and height replaced by max(1, requested)
\* (0x0 gives 1x1), leaves format, present mode, usage, alpha mode and
\* view formats as they were, and notifies window_resize with the same
\* clamped dimensions.
C16_Clamp(x) == IF x = 0 THEN 1 ELSE x

C16_Step ==
    \A w \in Windows :
        (/\ dispatched' = dispatched + 1
         /\ ~QUIT
         /\ last'.target = w
         /\ last'.event = "Resized"
         /\ surface_config[w] # <<>>)
        => LET old == surface_config[w][1]
               new == surface_config'[w][1]
               req == last'.size
           IN  /\ surface_config'[w] # <<>>
               /\ new.width = C16_Clamp(req[1])
               /\ new.height = C16_Clamp(req[2])
               /\ new.width >= 1 /\ new.height >= 1
               /\ new.format = old.format
               /\ new.present_mode = old.present_mode
               /\ new.usage = old.usage
               /\ new.alpha_mode = old.alpha_mode
               /\ new.view_formats = old.view_formats
               /\ last'.window_resize = <<new.width, new.height>>
               /\ \A v \in Windows \ {w} :
                      surface_config'[v] = surface_config[v]

C16_ResizeClamps == [][C16_Step]_vars

C16_Witness ==
    /\ last.event = "Resized"
    /\ last.size = <<0, 0>>
    /\ last.target \in Windows
    /\ surface_config[last.target] # <<>>
    /\ surface_config[last.target][1].width = 1
    /\ surface_config[last.target][1].height = 1
    /\ \E w \in Windows : surface_config[w] # <<>>
                             /\ surface_config[w][1].width = MaxSize

\* C13: every DefaultRenderPipeline.render call invokes pre_render exactly
\* once before any pass render and then render on each pass exactly once, in
\* add_render_pass order: the call starts its log with the one pre_render,
\* each pass render extends the log by the next pass of render_passes, and
\* the step that ends the call leaves the log equal to pre_render followed
\* by render_passes (pre_render alone for an empty pipeline).
C13_Step ==
    /\ pipeRenderNo' = pipeRenderNo + 1 =>
           /\ preRenderCount' = preRenderCount + 1
           /\ passRenderCount' = passRenderCount
           /\ renderLog' = <<"pre_render">>
    /\ passRenderCount' # passRenderCount =>
           /\ preRenderCount' = preRenderCount
           /\ Len(renderLog') <= Len(render_passes) + 1
           /\ renderLog' = Append(renderLog, render_passes[Len(renderLog)])
    /\ (pipeRenderNo' = pipeRenderNo + 1 \/ rmode = "pipeline")
         /\ rmode' # "pipeline" =>
           renderLog' = <<"pre_render">> \o render_passes

C13_EachPassOnceInOrder == [][C13_Step]_vars

\* C14: ComputePass.render on a pass whose init has not run panics with the
\* message that names that pass and invokes compute on no task; a pass whose
\* init has run stays initialized, and its render does not panic.
C14_Step ==
    \A c \in ComputePasses :
        /\ cp_initialized[c] => cp_initialized'[c]
        /\ cp_renders'[c] # cp_renders[c] =>
               IF cp_initialized[c]
               THEN panicked' = <<>>
               ELSE /\ Len(panicked') = 3
                    /\ panicked'[1] = "ComputePass '"
                    /\ panicked'[2] = c
                    /\ panicked'[3] = "' not initialized"
                    /\ taskCompute' = taskCompute

C14_RenderBeforeInitPanics == [][C14_Step]_vars

C14_Witness ==
    /\ panicked # <<>>
    /\ panicked[2] = "compute2"
    /\ cp_tasks["compute2"] # <<>>
    /\ cp_initialized["compute1"]
    /\ cp_renders["compute1"] > 0
    /\ taskCompute["t1"] > 0

\* the entries of a collection equal to e
Copies(coll, e) == Cardinality({i \in 1..Len(coll) : coll[i] = e})

\* the entries of the pass, active or pending, that hold drawable d
EntriesOf(active, pending, d) ==
    Cardinality({i \in 1..Len(active) : PtrEq(active[i], d)})
    + Cardinality({i \in 1..Len(pending) : PtrEq(pending[i], d)})

\* C15: remove_drawable(d) removes exactly the entries that hold d, from the
\* active collection and from the pending one: after a step that removes an
\* entry of d no entry of d is left, every entry of another drawable (one
\* with the same z included) is in the collection it was in, with its z,
\* as often as before, the pending ones in their order; and a render that
\* returns has drawn every active entry.
C15_Step ==
    /\ \A d \in Drawables :
           EntriesOf(drawables', new_drawables', d)
             < EntriesOf(drawables, new_drawables, d) =>
               /\ EntriesOf(drawables', new_drawables', d) = 0
               /\ new_drawables'
                    = SelectSeq(new_drawables, LAMBDA e : e.drawable # d)
               /\ \A e \in SeqRange(drawables) \cup SeqRange(drawables') :
                      Copies(drawables', e)
                        = IF e.drawable = d THEN 0 ELSE Copies(drawables, e)
    /\ (passLocked /\ ~passLocked') =>
           \A e \in SeqRange(drawables) \cup SeqRange(lastDrawn') :
               Copies(lastDrawn', e) = Copies(drawables, e)

C15_RemoveExactlyThatDrawable == [][C15_Step]_vars

\* b was active and has been removed; a, with the z b had, is still active
\* and was drawn by the render after the removal
C15_Witness ==
    /\ "b" \in everActive
    /\ ~InPass("b")
    /\ ~passLocked
    /\ \E i \in 1..Len(drawables) :
           drawables[i].drawable = "a" /\ drawables[i].z = 2
    /\ lastDrawn = HeapIter(drawables)

\* C21: a frame cycle whose texture acquisition fails is dropped and is not
\* fatal: the dispatch makes no call after get_current_texture (no pipeline
\* render, no submit, no present, no do_after_frame), does not ask the loop
\* to exit and leaves every window as it was; the event dispatched after it,
\* to whichever window, is handled.
C21_Step ==
    /\ (dispatched' = dispatched + 1 /\ last'.frame /\ ~last'.acquired) =>
           /\ last'.steps = <<"last_frame", "do_frame", "get_current_texture">>
           /\ ~last'.rendered /\ ~last'.submitted
           /\ ~last'.presented /\ ~last'.after_frame
           /\ submitCount' = submitCount
           /\ lastSubmit' = lastSubmit
           /\ ~last'.exit /\ exiting' = exiting
           /\ last'.closed = {} /\ closeCount' = closeCount
           /\ instance' = instance
           /\ surface_config' = surface_config
    /\ (dispatched' = dispatched + 1 /\ last.frame /\ ~last.acquired
          /\ last'.target \in Windows) =>
           last'.steps # <<>>

C21_FailedAcquisitionDropsFrame == [][C21_Step]_vars

\* w1's only frame cycle failed to get its texture, and the next event, for
\* w2, reached w2's handlers
C21_Witness ==
    /\ frameCount["w1"] = 1
    /\ submitCount = 0
    /\ last.target = "w2"
    /\ last.window_events = 1
    /\ ~QUIT

\* C22: get_surface, get_window_id, request_redraw and configure_surface
\* called on a window that has no OS window, and resize_surface called on
\* a window that has no surface configuration, panic at once and change
\* nothing; and AppState itself, resumed first and window events after it,
\* makes none of these calls on such a window: resumed calls init on a
\* window before configure_surface and request_redraw, and window_event
\* reads the id only of windows that have their OS window and resizes only
\* a configured surface.
C22_Step ==
    /\ (dispatched' = dispatched /\ resumeLog' = resumeLog
          /\ windowCall' # <<>>) =>
           LET c == windowCall'[1]
               unfit ==
                   \/ /\ c.op \in {"get_surface", "get_window_id",
                                   "request_redraw", "configure_surface"}
                      /\ ~instance[c.window]
                   \/ /\ c.op = "resize_surface"
                      /\ surface_config[c.window] = <<>>
           IN  unfit =>
                   /\ c.outcome = "panicked"
                   /\ panicked' # <<>>
                   /\ instance' = instance
                   /\ surface_config' = surface_config
                   /\ redraw_requested' = redraw_requested
    /\ resumeLog' # resumeLog =>
           /\ panicked' = <<>>
           /\ \A i \in 1..Len(resumeLog') :
                  resumeLog'[i].call \in {"configure_surface",
                                          "request_redraw"} =>
                      \E j \in 1..(i - 1) :
                          /\ resumeLog'[j].call = "init"
                          /\ resumeLog'[j].window = resumeLog'[i].window
    /\ dispatched' # dispatched =>
           /\ panicked' = <<>>
           /\ ~last'.quit =>
                  \A w \in Windows :
                      Lock(w) \in SeqRange(last'.locks) => instance[w]
           /\ "resize_surface" \in SeqRange(last'.steps) =>
                  surface_config[last'.target] # <<>>

C22_UnboundCallsAreFatal == [][C22_Step]_vars

\* resize_surface was called on a window that had its OS window but no
\* surface configuration, and panicked
C22_Witness ==
    /\ windowCall # <<>>
    /\ windowCall[1].op = "resize_surface"
    /\ windowCall[1].outcome = "panicked"
    /\ instance[windowCall[1].window]
    /\ panicked # <<>>

\* C23: with the quit flag not set, window_event hands the event to at most
\* one window, the one whose id is the event's target: no other window is
\* closed, resized, given a frame or a redraw request, and no other
\* window's last_frame or surface configuration changes; an event whose
\* target is no window of the collection reaches no handler.
C23_Step ==
    (dispatched' = dispatched + 1 /\ ~QUIT) =>
        /\ last'.closed \subseteq {last'.target} \cap Windows
        /\ \A w \in Windows \ {last'.target} :
               /\ last_frame'[w] = last_frame[w]
               /\ surface_config'[w] = surface_config[w]
               /\ frameCount'[w] = frameCount[w]
               /\ closeCount'[w] = closeCount[w]
               /\ lastSubmit'[w] = lastSubmit[w]
               /\ redraw_requested'[w] = redraw_requested[w]
        /\ last'.target \notin Windows =>
               /\ last'.steps = <<>>
               /\ last'.window_events = 0
               /\ submitCount' = submitCount
               /\ ~last'.exit

C23_OnlyTheTargetWindow == [][C23_Step]_vars

\* a frame cycle ran on w2 at a time when w1's last_frame was older
C23_Witness ==
    /\ ~QUIT
    /\ last.target = "w2"
    /\ last.frame
    /\ last_frame["w2"] > last_frame["w1"]
    /\ frameCount["w1"] = 0

\* C24: add_drawable only appends to the pending list. The step in which
\* an add_drawable lands leaves the active set, drawable_count, every init
\* count and the drawn elements as they were; until a render begins no
\* step adds an entry to the active set or invokes init on a drawable that
\* is pending and not active, and a draw reaches active entries only; the
\* render
\* that begins next empties the pending list into the active set, so that
\* drawable_count grows by the number of pending entries, and the pending
\* list is empty when that render returns.
C24_Step ==
    /\ Len(new_drawables') > Len(new_drawables) =>
           /\ new_drawables'[Len(new_drawables')].drawable \in Drawables
           /\ SubSeq(new_drawables', 1, Len(new_drawables)) = new_drawables
           /\ Len(new_drawables') = Len(new_drawables) + 1
           /\ drawables' = drawables
           /\ drawable_count(drawables') = drawable_count(drawables)
           /\ initCount' = initCount
           /\ lastDrawn' = lastDrawn
    /\ renderNo' = renderNo =>
           /\ drawable_count(drawables') <= drawable_count(drawables)
           /\ \A e \in SeqRange(drawables') :
                  Copies(drawables', e) <= Copies(drawables, e)
           /\ \A d \in DrawablesOf(new_drawables') \ DrawablesOf(drawables) :
                  initCount'[d] = initCount[d]
           /\ lastDrawn' # lastDrawn => lastDrawn' = HeapIter(drawables)
    /\ renderNo' # renderNo =>
           /\ new_drawables' = <<>>
           /\ drawable_count(drawables')
                = drawable_count(drawables) + Len(new_drawables)
           /\ \A e \in SeqRange(new_drawables) \cup SeqRange(drawables') :
                  Copies(drawables', e)
                    = Copies(drawables, e) + Copies(new_drawables, e)
    /\ (passLocked /\ ~passLocked') => new_drawables' = <<>>

InitInvoked ==
    {p \in PassNames : \E i \in 1..Len(initSteps) :
                           p \in SeqRange(initSteps[i].names)}
        \cup {c \in ComputePasses : cp_initialized[c]}

\* C25: whenever the pipeline invokes render on one of its passes, init has
\* been invoked on that pass before, also when the pass was appended with
\* add_render_pass after the pipeline's first render call.
C25_Step ==
    passRenderCount' # passRenderCount =>
        renderLog'[Len(renderLog')] \in InitInvoked

C25_InitBeforeFirstRender == [][C25_Step]_vars

\* C26: PrimaryDrawPass.render always completes: whenever a render has
\* drained the pending list and goes on to lock the drawables of the heap,
\* every one of these locks can be taken, also when the same drawable
\* handle has been added more than once. (While the render holds the pass
\* nothing can change the heap, so a render that cannot take its locks in
\* such a state never returns.)
C26_RenderCompletes == passLocked => GuardsAcquirable(drawables)

\* C27: when a dispatch has asked the event loop to exit, through the quit
\* flag or through a CloseRequested event on one window, every window of
\* the collection has received at least one window_close notification by
\* the end of that dispatch.
C27_ExitClosesEveryWindow ==
    (dispatched >= 1 /\ last.exit) => \A w \in Windows : closeCount[w] >= 1

\* C28 as stated: on each window window_frame and window_after_frame
\* strictly alternate: a frame cycle that notifies window_frame finds every
\* earlier window_frame of the window answered by a window_after_frame,
\* also after cycles whose texture acquisition failed.
C28_FrameStep ==
    (dispatched' = dispatched + 1 /\ last'.frame) =>
        frameCount[last'.target] = afterFrameCount[last'.target]

C28_FramesAlternate == [][C28_FrameStep]_vars

\* C28 amended: every window_after_frame of a window follows the
\* window_frame of the same frame cycle, with no other window_frame of that
\* window in between; a cycle that got its texture notifies both, in this
\* order, once each, and a cycle whose acquisition failed notifies
\* window_frame only, so that after_frame notifications never outnumber
\* frame notifications.
C28_AfterStep ==
    /\ \A w \in Windows :
           /\ afterFrameCount'[w] <= frameCount'[w]
           /\ afterFrameCount'[w] # afterFrameCount[w] =>
                  /\ afterFrameCount'[w] = afterFrameCount[w] + 1
                  /\ frameCount'[w] = frameCount[w] + 1
                  /\ w = last'.target
    /\ dispatched' = dispatched + 1 =>
           /\ last'.after_frame = (last'.frame /\ last'.acquired)
           /\ Cardinality(Occurrences(last'.steps, "do_frame"))
                = (IF last'.frame THEN 1 ELSE 0)
           /\ Cardinality(Occurrences(last'.steps, "do_after_frame"))
                = (IF last'.after_frame THEN 1 ELSE 0)
           /\ \A i \in Occurrences(last'.steps, "do_after_frame") :
                  \E j \in Occurrences(last'.steps, "do_frame") : j < i

C28_AfterFrameFollowsFrame == [][C28_AfterStep]_vars

\* w1's first frame cycle failed to get its texture, its second one ran to
\* the end
C28_Witness ==
    /\ frameCount["w1"] = 2
    /\ afterFrameCount["w1"] = 1
    /\ last.target = "w1"
    /\ last.after_frame

\* C29: with vsync off and any max_framerate, 0 included, the frame-rate cap
\* never skips the redraws of a window forever. A skipped cycle re-requests
\* the redraw (C19), so the window's next cycle runs as soon as the cap's
\* test fails; the rate is a whole number of frames per second, so the test
\* has to fail at the latest when a full second has elapsed since the
\* window's last frame: whenever the cap skips a cycle, a redraw delivered
\* one second after last_frame would not be skipped.
C29_SkipStep ==
    (dispatched' = dispatched + 1 /\ last'.skipped) =>
        /\ redraw_requested'[last'.target]
        /\ ~ElapsedBelow(TicksPerSec, max_framerate[1])

C29_CapNeverSkipsForever == [][C29_SkipStep]_vars

\* C30: a ComputePass never invokes compute on a task on which init has
\* not been invoked, for any interleaving of add_task, init and render,
\* also for a task appended with add_task after the pass's init has run.
C30_InitBeforeCompute ==
    \A t \in Tasks : taskCompute[t] > 0 => taskInit[t] > 0

\* the place of a mutex class in the order window, render pipeline, device,
\* queue, pass, drawable
LockRank(class) ==
    CASE class = "window" -> 1
      [] class = "pipeline" -> 2
      [] class = "device" -> 3
      [] class = "queue" -> 4
      [] class = "pass" -> 5
      [] class = "drawable" -> 6
OrderedClasses ==
    {"window", "pipeline", "device", "queue", "pass", "drawable"}

\* the guards of the ordered classes that are still held when the n-th
\* entry of the log is made
HeldAt(log, n) ==
    {m \in 1..n - 1 :
        /\ log[m].op = "lock"
        /\ log[m].class \in OrderedClasses
        /\ \A k \in m + 1..n - 1 :
               log[k] # Release(log[m].class, log[m].id)}

\* C31: on every scheduler path (the configure loop of resumed, a Resized
\* event, a redraw with its pipeline render) the nested locks are taken in
\* the order window, render pipeline, device, queue, pass, drawable: no lock
\* of one of these classes is acquired while a guard of a class later in
\* the order is held.
C31_OneLockOrder ==
    \A n \in 1..Len(lockLog) :
        (lockLog[n].op = "lock" /\ lockLog[n].class \in OrderedClasses) =>
            \A m \in HeldAt(lockLog, n) :
                LockRank(lockLog[m].class) <= LockRank(lockLog[n].class)

\* a redraw has locked a drawable while it held a window, a pipeline, the
\* device, the queue and the pass
C31_Witness ==
    \E n \in 1..Len(lockLog) :
        /\ lockLog[n].op = "lock"
        /\ lockLog[n].class = "drawable"
        /\ {"window", "pipeline", "device", "queue", "pass"} \subseteq
               {lockLog[m].class : m \in HeldAt(lockLog, n)}

====
